---------------------------- MODULE Spec2Model ----------------------------
(***************************************************************************)
(* A model of arc-ai (internal/cmd/root.go): the `commit` and `ask`        *)
(* commands and the provider dispatcher they share.                        *)
(*                                                                         *)
(* A Go string is modelled as a sequence of one-byte strings, so that      *)
(* len, slicing, trimming, case folding, splitting and joining are         *)
(* computed as the code computes them.  A byte is written as its ASCII     *)
(* character, and as "0xHH" when a TLA+ string cannot hold it (the         *)
(* vertical tab, the bytes of non-ASCII runes).  One behaviour is one      *)
(* process invocation.  What the process does to its environment (spawning *)
(* a subprocess, probing the path, reading standard input) is appended to  *)
(* `events`; everything it prints is appended to `stdout`.                 *)
(***************************************************************************)
EXTENDS Integers, Sequences, FiniteSets, TLC

(***************************************************************************)
(* Bounds of the model.                                                    *)
(***************************************************************************)
MaxDiff == 1        \* longest staged diff in Spec (bytes)
MaxOut == 2         \* longest provider output (bytes)
MaxStdin == 3       \* longest standard input (bytes)
MaxArgs == 2        \* most positional arguments of `ask`
MaxArgLen == 1      \* longest positional argument (bytes)
Slack == 2          \* SpecTrunc: diff lengths within Slack of TruncLimit

(***************************************************************************)
(* Program constants.                                                      *)
(***************************************************************************)
TruncLimit == 10000

\* bufio.MaxScanTokenSize, the buffer limit of the bufio.Scanner that
\* newAskCmd creates with its defaults.
MaxScanTokenSize == 65536

TruncMarker == << "\n", ".", ".", ".", " ", "(", "t", "r", "u", "n", "c", "a",
                  "t", "e", "d", ")" >>

PromptHead == <<
    "G", "e", "n", "e", "r", "a", "t", "e", " ", "a", " ", "c", "o", "n", "c",
    "i", "s", "e", " ", "g", "i", "t", " ", "c", "o", "m", "m", "i", "t", " ",
    "m", "e", "s", "s", "a", "g", "e", " ", "f", "o", "r", " ", "t", "h", "e",
    " ", "f", "o", "l", "l", "o", "w", "i", "n", "g", " ", "d", "i", "f", "f",
    ".", "\n", "U", "s", "e", " ", "c", "o", "n", "v", "e", "n", "t", "i",
    "o", "n", "a", "l", " ", "c", "o", "m", "m", "i", "t", " ", "f", "o", "r",
    "m", "a", "t", " ", "(", "f", "e", "a", "t", ":", ",", " ", "f", "i", "x",
    ":", ",", " ", "d", "o", "c", "s", ":", ",", " ", "r", "e", "f", "a", "c",
    "t", "o", "r", ":", ",", " ", "e", "t", "c", ".", ")", ".", "\n", "K",
    "e", "e", "p", " ", "t", "h", "e", " ", "m", "e", "s", "s", "a", "g", "e",
    " ", "u", "n", "d", "e", "r", " ", "7", "2", " ", "c", "h", "a", "r", "a",
    "c", "t", "e", "r", "s", " ", "f", "o", "r", " ", "t", "h", "e", " ", "s",
    "u", "b", "j", "e", "c", "t", " ", "l", "i", "n", "e", ".", "\n", "I",
    "n", "c", "l", "u", "d", "e", " ", "a", " ", "b", "r", "i", "e", "f", " ",
    "b", "o", "d", "y", " ", "i", "f", " ", "n", "e", "e", "d", "e", "d", ".",
    "\n", "\n", "D", "i", "f", "f", ":", "\n" >>

PromptTail == <<
    "\n", "\n", "R", "e", "s", "p", "o", "n", "d", " ", "w", "i", "t", "h",
    " ", "O", "N", "L", "Y", " ", "t", "h", "e", " ", "c", "o", "m", "m", "i",
    "t", " ", "m", "e", "s", "s", "a", "g", "e", ",", " ", "n", "o", " ", "e",
    "x", "p", "l", "a", "n", "a", "t", "i", "o", "n", "s", "." >>

Providers == {"claude", "codex"}

NoProviderMsg == "no AI provider available (install claude or codex CLI)"

(***************************************************************************)
(* Input alphabets.                                                        *)
(***************************************************************************)
DiffChars == {"+"}
OutChars == {"f", " ", "\n"}
ConfirmChars ==
    {"y", "Y", "e", "E", "s", "S", "n", " ", "\n", "0xC3", "0x89"}
AskChars == {"q", "\n", "\r", "\f", "0xC2", "0xA0"}
ArgChars == {"q", " "}
Models == {"", "m"}
ExecErrs == {"exit status 1", "cannot run"}

Strings(S, n) == UNION {[1..k -> S] : k \in 0..n}

(***************************************************************************)
(* Library functions, computed as the Go standard library computes them    *)
(* on the bytes of the alphabets above.                                    *)
(***************************************************************************)
\* strings.asciiSpace: the ASCII bytes that are white space.
AsciiSpace == {"\t", "\n", "0x0B", "\f", "\r", " "}

\* The UTF-8 encodings of the other runes for which unicode.IsSpace holds:
\* U+0085, U+00A0, U+1680, U+2000..U+200A, U+2028, U+2029, U+202F, U+205F,
\* U+3000.
UnicodeSpace ==
    { << "0xC2", "0x85" >>, << "0xC2", "0xA0" >>,
      << "0xE1", "0x9A", "0x80" >>,
      << "0xE2", "0x80", "0x80" >>, << "0xE2", "0x80", "0x81" >>,
      << "0xE2", "0x80", "0x82" >>, << "0xE2", "0x80", "0x83" >>,
      << "0xE2", "0x80", "0x84" >>, << "0xE2", "0x80", "0x85" >>,
      << "0xE2", "0x80", "0x86" >>, << "0xE2", "0x80", "0x87" >>,
      << "0xE2", "0x80", "0x88" >>, << "0xE2", "0x80", "0x89" >>,
      << "0xE2", "0x80", "0x8A" >>, << "0xE2", "0x80", "0xA8" >>,
      << "0xE2", "0x80", "0xA9" >>, << "0xE2", "0x80", "0xAF" >>,
      << "0xE2", "0x81", "0x9F" >>, << "0xE3", "0x80", "0x80" >> }

\* Every white-space rune, as the bytes that encode it.
Space == {<< c >> : c \in AsciiSpace} \cup UnicodeSpace

HasPrefix(s, w) == Len(w) <= Len(s) /\ SubSeq(s, 1, Len(w)) = w

HasSuffix(s, w) ==
    Len(w) <= Len(s) /\ SubSeq(s, Len(s) - Len(w) + 1, Len(s)) = w

RECURSIVE TrimLeft(_)
TrimLeft(s) ==
    IF \E w \in Space : HasPrefix(s, w)
    THEN LET w == CHOOSE w \in Space : HasPrefix(s, w)
         IN TrimLeft(SubSeq(s, Len(w) + 1, Len(s)))
    ELSE s

RECURSIVE TrimRight(_)
TrimRight(s) ==
    IF \E w \in Space : HasSuffix(s, w)
    THEN LET w == CHOOSE w \in Space : HasSuffix(s, w)
         IN TrimRight(SubSeq(s, 1, Len(s) - Len(w)))
    ELSE s

TrimSpace(s) == TrimRight(TrimLeft(s))

UpperCase == << "A", "B", "C", "D", "E", "F", "G", "H", "I", "J", "K", "L", "M",
                "N", "O", "P", "Q", "R", "S", "T", "U", "V", "W", "X", "Y", "Z" >>
LowerCase == << "a", "b", "c", "d", "e", "f", "g", "h", "i", "j", "k", "l", "m",
                "n", "o", "p", "q", "r", "s", "t", "u", "v", "w", "x", "y", "z" >>

\* strings.ToLower on an ASCII byte.
LowerByte(c) ==
    IF \E i \in 1..Len(UpperCase) : UpperCase[i] = c
    THEN LowerCase[CHOOSE i \in 1..Len(UpperCase) : UpperCase[i] = c]
    ELSE c

\* The bytes from utf8.RuneSelf up, and the value of each.
Hex == << "0", "1", "2", "3", "4", "5", "6", "7", "8", "9", "A", "B", "C", "D",
          "E", "F" >>

ByteTok(n) == "0x" \o Hex[(n \div 16) + 1] \o Hex[(n % 16) + 1]

HighBytes == {ByteTok(n) : n \in 128..255}

ByteVal(t) == CHOOSE n \in 128..255 : ByteTok(n) = t

\* The value of byte k of s when s has such a byte and it is not ASCII,
\* otherwise 0.
High(s, k) == IF k <= Len(s) /\ s[k] \in HighBytes THEN ByteVal(s[k]) ELSE 0

InRange(v, lo, hi) == lo <= v /\ v <= hi

Cont(s, k) == InRange(High(s, k), 128, 191)

\* utf8.DecodeRuneInString on a string that starts with a non-ASCII byte:
\* the width of the rune encoded at its start, 0 when the bytes there are no
\* valid encoding (the decoder then yields utf8.RuneError for one byte).
RuneLen(s) ==
    LET b == High(s, 1) IN
    IF InRange(b, 194, 223) /\ Cont(s, 2) THEN 2
    ELSE IF /\ InRange(b, 224, 239)
            /\ InRange(High(s, 2), IF b = 224 THEN 160 ELSE 128,
                                   IF b = 237 THEN 159 ELSE 191)
            /\ Cont(s, 3)
    THEN 3
    ELSE IF /\ InRange(b, 240, 244)
            /\ InRange(High(s, 2), IF b = 240 THEN 144 ELSE 128,
                                   IF b = 244 THEN 143 ELSE 191)
            /\ Cont(s, 3)
            /\ Cont(s, 4)
    THEN 4
    ELSE 0

\* The code point of the rune of width n at the start of s.
DecodeRune(s, n) ==
    IF n = 2 THEN (High(s, 1) - 192) * 64 + (High(s, 2) - 128)
    ELSE IF n = 3
    THEN (High(s, 1) - 224) * 4096 + (High(s, 2) - 128) * 64
         + (High(s, 3) - 128)
    ELSE (High(s, 1) - 240) * 262144 + (High(s, 2) - 128) * 4096
         + (High(s, 3) - 128) * 64 + (High(s, 4) - 128)

\* utf8.AppendRune on the lower case of a non-ASCII rune: that is again a
\* non-ASCII rune or an ASCII lower-case letter.
EncodeRune(c) ==
    IF c < 128 THEN << LowerCase[c - 96] >>
    ELSE IF c < 2048
    THEN << ByteTok(192 + (c \div 64)), ByteTok(128 + (c % 64)) >>
    ELSE IF c < 65536
    THEN << ByteTok(224 + (c \div 4096)), ByteTok(128 + ((c \div 64) % 64)),
            ByteTok(128 + (c % 64)) >>
    ELSE << ByteTok(240 + (c \div 262144)),
            ByteTok(128 + ((c \div 4096) % 64)),
            ByteTok(128 + ((c \div 64) % 64)), ByteTok(128 + (c % 64)) >>

\* The encoding of utf8.RuneError, U+FFFD.
RuneError == << "0xEF", "0xBF", "0xBD" >>

\* unicode.ToLower on the non-ASCII code points, as the simple lower-case
\* mappings of the Unicode character database (14.0.0): << lo, hi, step,
\* delta >> maps lo, lo + step, ..., hi each to itself plus delta.
LowerRanges == <<
    << 192, 214, 1, 32 >>, << 216, 222, 1, 32 >>, << 256, 302, 2, 1 >>,
    << 304, 304, 1, -199 >>, << 306, 310, 2, 1 >>, << 313, 327, 2, 1 >>,
    << 330, 374, 2, 1 >>, << 376, 376, 1, -121 >>, << 377, 381, 2, 1 >>,
    << 385, 385, 1, 210 >>, << 386, 388, 2, 1 >>, << 390, 390, 1, 206 >>,
    << 391, 391, 1, 1 >>, << 393, 394, 1, 205 >>, << 395, 395, 1, 1 >>,
    << 398, 398, 1, 79 >>, << 399, 399, 1, 202 >>, << 400, 400, 1, 203 >>,
    << 401, 401, 1, 1 >>, << 403, 403, 1, 205 >>, << 404, 404, 1, 207 >>,
    << 406, 406, 1, 211 >>, << 407, 407, 1, 209 >>, << 408, 408, 1, 1 >>,
    << 412, 412, 1, 211 >>, << 413, 413, 1, 213 >>, << 415, 415, 1, 214 >>,
    << 416, 420, 2, 1 >>, << 422, 422, 1, 218 >>, << 423, 423, 1, 1 >>,
    << 425, 425, 1, 218 >>, << 428, 428, 1, 1 >>, << 430, 430, 1, 218 >>,
    << 431, 431, 1, 1 >>, << 433, 434, 1, 217 >>, << 435, 437, 2, 1 >>,
    << 439, 439, 1, 219 >>, << 440, 440, 1, 1 >>, << 444, 444, 1, 1 >>,
    << 452, 452, 1, 2 >>, << 453, 453, 1, 1 >>, << 455, 455, 1, 2 >>,
    << 456, 456, 1, 1 >>, << 458, 458, 1, 2 >>, << 459, 475, 2, 1 >>,
    << 478, 494, 2, 1 >>, << 497, 497, 1, 2 >>, << 498, 500, 2, 1 >>,
    << 502, 502, 1, -97 >>, << 503, 503, 1, -56 >>, << 504, 542, 2, 1 >>,
    << 544, 544, 1, -130 >>, << 546, 562, 2, 1 >>, << 570, 570, 1, 10795 >>,
    << 571, 571, 1, 1 >>, << 573, 573, 1, -163 >>, << 574, 574, 1, 10792 >>,
    << 577, 577, 1, 1 >>, << 579, 579, 1, -195 >>, << 580, 580, 1, 69 >>,
    << 581, 581, 1, 71 >>, << 582, 590, 2, 1 >>, << 880, 882, 2, 1 >>,
    << 886, 886, 1, 1 >>, << 895, 895, 1, 116 >>, << 902, 902, 1, 38 >>,
    << 904, 906, 1, 37 >>, << 908, 908, 1, 64 >>, << 910, 911, 1, 63 >>,
    << 913, 929, 1, 32 >>, << 931, 939, 1, 32 >>, << 975, 975, 1, 8 >>,
    << 984, 1006, 2, 1 >>, << 1012, 1012, 1, -60 >>, << 1015, 1015, 1, 1 >>,
    << 1017, 1017, 1, -7 >>, << 1018, 1018, 1, 1 >>,
    << 1021, 1023, 1, -130 >>, << 1024, 1039, 1, 80 >>,
    << 1040, 1071, 1, 32 >>, << 1120, 1152, 2, 1 >>, << 1162, 1214, 2, 1 >>,
    << 1216, 1216, 1, 15 >>, << 1217, 1229, 2, 1 >>, << 1232, 1326, 2, 1 >>,
    << 1329, 1366, 1, 48 >>, << 4256, 4293, 1, 7264 >>,
    << 4295, 4295, 1, 7264 >>, << 4301, 4301, 1, 7264 >>,
    << 5024, 5103, 1, 38864 >>, << 5104, 5109, 1, 8 >>,
    << 7312, 7354, 1, -3008 >>, << 7357, 7359, 1, -3008 >>,
    << 7680, 7828, 2, 1 >>, << 7838, 7838, 1, -7615 >>,
    << 7840, 7934, 2, 1 >>, << 7944, 7951, 1, -8 >>, << 7960, 7965, 1, -8 >>,
    << 7976, 7983, 1, -8 >>, << 7992, 7999, 1, -8 >>, << 8008, 8013, 1, -8 >>,
    << 8025, 8031, 2, -8 >>, << 8040, 8047, 1, -8 >>, << 8072, 8079, 1, -8 >>,
    << 8088, 8095, 1, -8 >>, << 8104, 8111, 1, -8 >>, << 8120, 8121, 1, -8 >>,
    << 8122, 8123, 1, -74 >>, << 8124, 8124, 1, -9 >>,
    << 8136, 8139, 1, -86 >>, << 8140, 8140, 1, -9 >>,
    << 8152, 8153, 1, -8 >>, << 8154, 8155, 1, -100 >>,
    << 8168, 8169, 1, -8 >>, << 8170, 8171, 1, -112 >>,
    << 8172, 8172, 1, -7 >>, << 8184, 8185, 1, -128 >>,
    << 8186, 8187, 1, -126 >>, << 8188, 8188, 1, -9 >>,
    << 8486, 8486, 1, -7517 >>, << 8490, 8490, 1, -8383 >>,
    << 8491, 8491, 1, -8262 >>, << 8498, 8498, 1, 28 >>,
    << 8544, 8559, 1, 16 >>, << 8579, 8579, 1, 1 >>, << 9398, 9423, 1, 26 >>,
    << 11264, 11311, 1, 48 >>, << 11360, 11360, 1, 1 >>,
    << 11362, 11362, 1, -10743 >>, << 11363, 11363, 1, -3814 >>,
    << 11364, 11364, 1, -10727 >>, << 11367, 11371, 2, 1 >>,
    << 11373, 11373, 1, -10780 >>, << 11374, 11374, 1, -10749 >>,
    << 11375, 11375, 1, -10783 >>, << 11376, 11376, 1, -10782 >>,
    << 11378, 11378, 1, 1 >>, << 11381, 11381, 1, 1 >>,
    << 11390, 11391, 1, -10815 >>, << 11392, 11490, 2, 1 >>,
    << 11499, 11501, 2, 1 >>, << 11506, 11506, 1, 1 >>,
    << 42560, 42604, 2, 1 >>, << 42624, 42650, 2, 1 >>,
    << 42786, 42798, 2, 1 >>, << 42802, 42862, 2, 1 >>,
    << 42873, 42875, 2, 1 >>, << 42877, 42877, 1, -35332 >>,
    << 42878, 42886, 2, 1 >>, << 42891, 42891, 1, 1 >>,
    << 42893, 42893, 1, -42280 >>, << 42896, 42898, 2, 1 >>,
    << 42902, 42920, 2, 1 >>, << 42922, 42922, 1, -42308 >>,
    << 42923, 42923, 1, -42319 >>, << 42924, 42924, 1, -42315 >>,
    << 42925, 42925, 1, -42305 >>, << 42926, 42926, 1, -42308 >>,
    << 42928, 42928, 1, -42258 >>, << 42929, 42929, 1, -42282 >>,
    << 42930, 42930, 1, -42261 >>, << 42931, 42931, 1, 928 >>,
    << 42932, 42946, 2, 1 >>, << 42948, 42948, 1, -48 >>,
    << 42949, 42949, 1, -42307 >>, << 42950, 42950, 1, -35384 >>,
    << 42951, 42953, 2, 1 >>, << 42960, 42960, 1, 1 >>,
    << 42966, 42968, 2, 1 >>, << 42997, 42997, 1, 1 >>,
    << 65313, 65338, 1, 32 >>, << 66560, 66599, 1, 40 >>,
    << 66736, 66771, 1, 40 >>, << 66928, 66964, 2, 39 >>,
    << 66929, 66937, 2, 39 >>, << 66941, 66953, 2, 39 >>,
    << 66957, 66961, 2, 39 >>, << 66965, 66965, 1, 39 >>,
    << 68736, 68786, 1, 64 >>, << 71840, 71871, 1, 32 >>,
    << 93760, 93791, 1, 32 >>, << 125184, 125217, 1, 34 >> >>

LowerRune(c) ==
    IF \E i \in DOMAIN LowerRanges :
          /\ InRange(c, LowerRanges[i][1], LowerRanges[i][2])
          /\ (c - LowerRanges[i][1]) % LowerRanges[i][3] = 0
    THEN c + LowerRanges[CHOOSE i \in DOMAIN LowerRanges :
                            /\ InRange(c, LowerRanges[i][1], LowerRanges[i][2])
                            /\ (c - LowerRanges[i][1]) % LowerRanges[i][3] = 0][4]
    ELSE c

\* strings.Map(unicode.ToLower, s): rune by rune; a byte that starts no
\* valid encoding becomes utf8.RuneError.
RECURSIVE MapLower(_)
MapLower(s) ==
    IF s = <<>> THEN <<>>
    ELSE IF s[1] \notin HighBytes
    THEN << LowerByte(s[1]) >> \o MapLower(Tail(s))
    ELSE IF RuneLen(s) = 0 THEN RuneError \o MapLower(Tail(s))
    ELSE EncodeRune(LowerRune(DecodeRune(s, RuneLen(s))))
         \o MapLower(SubSeq(s, RuneLen(s) + 1, Len(s)))

\* strings.ToLower: byte by byte on an ASCII string, otherwise by runes.
ToLower(s) ==
    IF \A i \in DOMAIN s : s[i] \notin HighBytes
    THEN [i \in 1..Len(s) |-> LowerByte(s[i])]
    ELSE MapLower(s)

RECURSIVE Join(_, _)
Join(elems, sep) ==
    IF elems = <<>> THEN <<>>
    ELSE IF Len(elems) = 1 THEN elems[1]
    ELSE elems[1] \o sep \o Join(Tail(elems), sep)

\* Index of the first byte equal to c in s, 0 when there is none.
IndexByte(s, c) ==
    IF \E i \in 1..Len(s) : s[i] = c
    THEN CHOOSE i \in 1..Len(s) : s[i] = c /\ \A j \in 1..(i - 1) : s[j] # c
    ELSE 0

\* bufio.Reader.ReadString(delim): the bytes up to and including the first
\* delim; at end of input (or on a read error) the bytes read so far.
ReadString(in, delim) ==
    IF IndexByte(in, delim) = 0 THEN in ELSE SubSeq(in, 1, IndexByte(in, delim))

\* bufio.ScanLines drops one trailing carriage return of a line.
DropCR(line) ==
    IF line # <<>> /\ line[Len(line)] = "\r"
    THEN SubSeq(line, 1, Len(line) - 1)
    ELSE line

\* The bytes of the first line of a non-empty input, before its newline.
LineLen(in) ==
    IF IndexByte(in, "\n") = 0 THEN Len(in) ELSE IndexByte(in, "\n") - 1

\* `for scanner.Scan() { lines = append(lines, scanner.Text()) }` with the
\* default split function (bufio.ScanLines): the lines of `in`, each without
\* its end-of-line marker.  A line that does not fit the scanner's buffer
\* makes Scan return false (bufio.ErrTooLong), which ends the loop.
RECURSIVE ScanLines(_)
ScanLines(in) ==
    IF in = <<>> THEN <<>>
    ELSE IF LineLen(in) >= MaxScanTokenSize THEN <<>>
    ELSE IF IndexByte(in, "\n") = 0 THEN << DropCR(in) >>
    ELSE << DropCR(SubSeq(in, 1, LineLen(in))) >>
         \o ScanLines(SubSeq(in, LineLen(in) + 2, Len(in)))

\* What scanner.Err() holds after that loop ("" is nil); the code never
\* looks at it.
RECURSIVE ScanErr(_)
ScanErr(in) ==
    IF in = <<>> THEN ""
    ELSE IF LineLen(in) >= MaxScanTokenSize
    THEN "bufio.Scanner: token too long"
    ELSE IF IndexByte(in, "\n") = 0 THEN ""
    ELSE ScanErr(SubSeq(in, LineLen(in) + 2, Len(in)))

(***************************************************************************)
(* State.                                                                  *)
(***************************************************************************)
VARIABLES
    path,        \* the provider executables found on the execution path
    pc,          \* where the invocation stands
    cmd,         \* "commit" or "ask" ("" before the command line is parsed)
    dryRun,      \* --dry-run
    model,       \* --model
    outJSON,     \* the output options of `ask` resolve to JSON
    args,        \* positional arguments
    diffOutput,  \* newCommitCmd: what `git diff --cached` wrote
    diff,        \* newCommitCmd: the text interpolated into the prompt
    prompt,      \* askAI's prompt parameter
    aiOut,       \* askAI's string result
    aiErr,       \* askAI's error result ("" is nil)
    message,     \* newCommitCmd: the commit message
    response,    \* newCommitCmd: the normalised confirmation response
    question,    \* newAskCmd: the derived question
    events,      \* subprocesses spawned, path lookups, reads of standard input
    stdout,      \* what the process itself printed
    result       \* RunE's return value: "none" (running), "nil", or the error

vars == << path, pc, cmd, dryRun, model, outJSON, args, diffOutput, diff,
           prompt, aiOut, aiErr, message, response, question, events, stdout,
           result >>

flags == << cmd, dryRun, model, outJSON, args >>
commitLocals == << diffOutput, diff, message, response >>
aiState == << prompt, aiOut, aiErr >>

\* One entry of `events`.  argv holds the fixed leading arguments; text is
\* the trailing argument that carries text (the prompt, the commit message)
\* or, for a read, the bytes read; err is "" on success.
Event(op, prog, argv, text, err) ==
    [op |-> op, prog |-> prog, argv |-> argv, text |-> text, err |-> err]

\* One call of fmt.Print*, or of the JSON renderer.
Printed(fmt, a) == [fmt |-> fmt, args |-> a]

Return(err) == pc' = "done" /\ result' = err

\* fmt.Errorf("<what>: %w", err)
Wrap(what, err) == what \o ": " \o err

Init ==
    /\ path \in SUBSET Providers
    /\ pc = "idle"
    /\ cmd = ""
    /\ dryRun = FALSE
    /\ model = ""
    /\ outJSON = FALSE
    /\ args = <<>>
    /\ diffOutput = <<>>
    /\ diff = <<>>
    /\ prompt = <<>>
    /\ aiOut = <<>>
    /\ aiErr = ""
    /\ message = <<>>
    /\ response = <<>>
    /\ question = <<>>
    /\ events = <<>>
    /\ stdout = <<>>
    /\ result = "none"

(***************************************************************************)
(* The command line is parsed and one of the two commands is run.          *)
(***************************************************************************)
ExecuteCommit ==
    /\ pc = "idle"
    /\ cmd' = "commit"
    /\ dryRun' \in BOOLEAN
    /\ model' \in Models
    /\ pc' = "commit_diff"
    /\ UNCHANGED << path, outJSON, args, commitLocals, aiState, question,
                    events, stdout, result >>

ExecuteAsk ==
    /\ pc = "idle"
    /\ cmd' = "ask"
    /\ model' \in Models
    /\ args' \in Strings(Strings(ArgChars, MaxArgLen), MaxArgs)
    /\ pc' = "ask_question"
    /\ UNCHANGED << path, dryRun, outJSON, commitLocals, aiState, question,
                    events, stdout, result >>

(***************************************************************************)
(* newCommitCmd, up to the call of askAI.                                  *)
(***************************************************************************)
\* Mutant: the empty diff is not checked for.
diffErrorNoEmptyCheck(err, out) ==
    IF err # "" THEN Wrap("git diff failed", err) ELSE ""

\* Mutant: a failed diff and an empty diff are one condition.
diffErrorOneCondition(err, out) ==
    IF err # "" \/ Len(out) = 0 THEN "no staged changes" ELSE ""

\* Mutant: the error of the diff subprocess is dropped.
diffErrorIgnored(err, out) ==
    IF Len(out) = 0 THEN "no staged changes" ELSE ""

\* The error the diff step returns, "" when it goes on.
diffError(err, out) ==
    IF err # "" THEN Wrap("git diff failed", err)
    ELSE IF Len(out) = 0 THEN "no staged changes"
    ELSE ""

\* Mutant: a diff of exactly TruncLimit bytes is cut too.
TruncateFromLimit(d) ==
    IF Len(d) >= TruncLimit
    THEN SubSeq(d, 1, TruncLimit) \o TruncMarker
    ELSE d

Truncate(d) ==
    IF Len(d) > TruncLimit
    THEN SubSeq(d, 1, TruncLimit) \o TruncMarker
    ELSE d

CommitPrompt(d) == PromptHead \o d \o PromptTail

commitDiff(outputs) ==
    /\ pc = "commit_diff"
    /\ \E err \in {""} \cup ExecErrs, out \in outputs :
          /\ events' = Append(events,
                 Event("exec", "git", << "diff", "--cached" >>, <<>>, err))
          /\ diffOutput' = out
          /\ IF diffError(err, out) # ""
             THEN /\ Return(diffError(err, out))
                  /\ UNCHANGED << diff, prompt, stdout >>
             ELSE /\ diff' = Truncate(out)
                  /\ prompt' = CommitPrompt(diff')
                  /\ stdout' = Append(stdout,
                         Printed("Generating commit message...\n", <<>>))
                  /\ pc' = "askAI"
                  /\ UNCHANGED result
    /\ UNCHANGED << path, flags, aiOut, aiErr, message, response, question >>

CommitDiff == commitDiff(Strings(DiffChars, MaxDiff))

\* SpecTrunc: staged diffs whose length is near and beyond TruncLimit, with
\* contents that differ from byte to byte.
Pattern(n, p) == [i \in 1..n |-> IF i % p = 0 THEN "\n" ELSE "+"]

LongDiffs ==
    {Pattern(n, p) : n \in (1..Slack)
                             \cup ((TruncLimit - Slack)..(TruncLimit + Slack))
                             \cup {2 * TruncLimit + Slack},
                     p \in {2, 3, 7}}

CommitDiffLong == commitDiff(LongDiffs)

(***************************************************************************)
(* askAI, askClaude, askCodex.                                             *)
(***************************************************************************)
LookPath(name, p) == name \in p

\* Mutant: codex is preferred to claude.
selectProviderCodexFirst(p) ==
    IF LookPath("codex", p) THEN "codex"
    ELSE IF LookPath("claude", p) THEN "claude"
    ELSE ""

\* The provider askAI hands the prompt to, "" when it finds none.
selectProvider(p) ==
    IF LookPath("claude", p) THEN "claude"
    ELSE IF LookPath("codex", p) THEN "codex"
    ELSE ""

Probe(name, p) ==
    Event("lookpath", name, <<>>, <<>>,
          IF LookPath(name, p) THEN "" ELSE "not found")

askAI ==
    /\ pc = "askAI"
    /\ IF selectProvider(path) = "claude"
       THEN /\ events' = Append(events, Probe("claude", path))
            /\ pc' = "askClaude"
            /\ UNCHANGED << aiOut, aiErr >>
       ELSE IF selectProvider(path) = "codex"
       THEN /\ events' = events \o << Probe("claude", path),
                                      Probe("codex", path) >>
            /\ pc' = "askCodex"
            /\ UNCHANGED << aiOut, aiErr >>
       ELSE /\ events' = events \o << Probe("claude", path),
                                      Probe("codex", path) >>
            /\ aiOut' = <<>>
            /\ aiErr' = NoProviderMsg
            /\ pc' = "ai_returned"
    /\ UNCHANGED << path, flags, commitLocals, prompt, question, stdout,
                    result >>

\* The argument list before the prompt.
providerArgs(sub, m) ==
    << sub >> \o (IF m # "" THEN << "--model", m >> ELSE <<>>)

askProvider(prog, sub) ==
    /\ \E err \in {""} \cup ExecErrs :
          /\ events' = Append(events,
                 Event("exec", prog, providerArgs(sub, model), prompt, err))
          /\ IF err # ""
             THEN aiOut' = <<>> /\ aiErr' = Wrap(prog \o " failed", err)
             ELSE /\ \E out \in Strings(OutChars, MaxOut) :
                        aiOut' = TrimSpace(out)
                  /\ aiErr' = ""
    /\ pc' = "ai_returned"
    /\ UNCHANGED << path, flags, commitLocals, prompt, question, stdout,
                    result >>

askClaude == pc = "askClaude" /\ askProvider("claude", "--print")

askCodex == pc = "askCodex" /\ askProvider("codex", "ask")

(***************************************************************************)
(* newCommitCmd, after askAI returned.                                     *)
(***************************************************************************)
\* Mutant: --dry-run is not looked at.
afterMessageIgnoringDryRun(dry) == "commit_confirm"

\* Where the flow goes once the message is at hand.
afterMessage(dry) == IF dry THEN "done" ELSE "commit_confirm"

commitMessage ==
    /\ pc = "ai_returned"
    /\ cmd = "commit"
    /\ IF aiErr # ""
       THEN /\ Return(Wrap("AI request failed", aiErr))
            /\ UNCHANGED << message, stdout >>
       ELSE /\ message' = TrimSpace(aiOut)
            /\ pc' = afterMessage(dryRun)
            /\ IF pc' = "done"
               THEN /\ stdout' = Append(stdout,
                           Printed("\nSuggested commit message:\n%s\n",
                                   << message' >>))
                    /\ result' = "nil"
               ELSE /\ stdout' = stdout \o
                           << Printed("\nSuggested commit message:\n%s\n\n",
                                      << message' >>),
                              Printed("Use this message? [Y/n]: ", <<>>) >>
                    /\ UNCHANGED result
    /\ UNCHANGED << path, flags, diffOutput, diff, response, aiState,
                    question, events >>

\* Mutant: the response is not lower-cased.
normaliseNoFold(line) == TrimSpace(line)

normalise(line) == TrimSpace(ToLower(line))

\* Mutant: the empty response does not confirm.
ConfirmedExplicitly(r) == r \in { << "y" >>, << "y", "e", "s" >> }

\* The negation of the condition under which the commit is cancelled.
Confirmed(r) == ~(r # <<>> /\ r # << "y" >> /\ r # << "y", "e", "s" >>)

commitConfirm ==
    /\ pc = "commit_confirm"
    /\ \E in \in Strings(ConfirmChars, MaxStdin) :
          /\ events' = Append(events,
                 Event("read", "stdin", <<>>, ReadString(in, "\n"),
                       IF IndexByte(in, "\n") = 0 THEN "EOF" ELSE ""))
          /\ response' = normalise(ReadString(in, "\n"))
    /\ IF Confirmed(response')
       THEN pc' = "commit_run" /\ UNCHANGED << stdout, result >>
       ELSE /\ stdout' = Append(stdout, Printed("Commit cancelled.\n", <<>>))
            /\ Return("nil")
    /\ UNCHANGED << path, flags, diffOutput, diff, message, aiState,
                    question >>

commitRun ==
    /\ pc = "commit_run"
    /\ \E err \in {""} \cup ExecErrs :
          /\ events' = Append(events,
                 Event("exec", "git", << "commit", "-m" >>, message, err))
          /\ Return(IF err # "" THEN Wrap("git commit failed", err) ELSE "nil")
    /\ UNCHANGED << path, flags, commitLocals, aiState, question, stdout >>

(***************************************************************************)
(* newAskCmd.                                                              *)
(***************************************************************************)
\* The question, from the arguments or else from standard input.
deriveQuestion(a, in) ==
    IF Len(a) > 0 THEN Join(a, << " " >>) ELSE Join(ScanLines(in), << "\n" >>)

\* Mutant: only the empty question is refused.
noQuestionEmptyOnly(q) == q = <<>>

noQuestion(q) == TrimSpace(q) = <<>>

\* The output helper is an external collaborator: resolving the output
\* options either fails or says whether the rendering is JSON.
askQuestion(inputs) ==
    /\ pc = "ask_question"
    /\ \E resolveErr \in {"", "invalid output options"}, json \in BOOLEAN,
          in \in IF Len(args) > 0 THEN {<<>>} ELSE inputs :
          IF resolveErr # ""
          THEN /\ Return(resolveErr)
               /\ UNCHANGED << outJSON, question, prompt, events >>
          ELSE /\ outJSON' = json
               /\ question' = deriveQuestion(args, in)
               /\ events' = IF Len(args) > 0 THEN events
                            ELSE Append(events,
                                     Event("read", "stdin", <<>>, in,
                                           ScanErr(in)))
               /\ IF noQuestion(question')
                  THEN Return("no question provided") /\ UNCHANGED prompt
                  ELSE /\ prompt' = question'
                       /\ pc' = "askAI"
                       /\ UNCHANGED result
    /\ UNCHANGED << path, cmd, dryRun, model, args, commitLocals, aiOut,
                    aiErr, stdout >>

AskQuestion == askQuestion(Strings(AskChars, MaxStdin))

\* SpecScan: standard input with one line whose length is near
\* MaxScanTokenSize, alone or between short lines.
LongLine(n) == [i \in 1..n |-> "q"]

LongInputs ==
    {pre \o LongLine(n) \o post :
        n \in (MaxScanTokenSize - Slack)..(MaxScanTokenSize + Slack),
        pre \in {<<>>, << "q", "\n" >>},
        post \in {<<>>, << "\n", "q" >>}}

AskQuestionLong == askQuestion(LongInputs)

askAnswer ==
    /\ pc = "ai_returned"
    /\ cmd = "ask"
    /\ IF aiErr # ""
       THEN Return(aiErr) /\ UNCHANGED stdout
       ELSE IF outJSON
       THEN \E jsonErr \in {"", "write failed"} :
               /\ stdout' = IF jsonErr # "" THEN stdout
                            ELSE Append(stdout,
                                     Printed("{question, response}",
                                             << question, aiOut >>))
               /\ Return(IF jsonErr # "" THEN jsonErr ELSE "nil")
       ELSE /\ stdout' = Append(stdout, Printed("%s\n", << aiOut >>))
            /\ Return("nil")
    /\ UNCHANGED << path, flags, commitLocals, aiState, question, events >>

(***************************************************************************)
(* Specifications.                                                         *)
(***************************************************************************)
Next ==
    \/ ExecuteCommit
    \/ ExecuteAsk
    \/ CommitDiff
    \/ askAI
    \/ askClaude
    \/ askCodex
    \/ commitMessage
    \/ commitConfirm
    \/ commitRun
    \/ AskQuestion
    \/ askAnswer

Spec == Init /\ [][Next]_vars

\* The commit command up to the prompt, on long staged diffs.
NextTrunc ==
    \/ ExecuteCommit
    \/ CommitDiffLong

SpecTrunc == Init /\ [][NextTrunc]_vars

\* The ask command up to the derived question, on long lines of input.
NextScan ==
    \/ ExecuteAsk
    \/ AskQuestionLong

SpecScan == Init /\ [][NextScan]_vars

(***************************************************************************)
(* Vocabulary of the properties: positions in the event log.               *)
(***************************************************************************)
IsExec(i, prog, sub) ==
    /\ events[i].op = "exec"
    /\ events[i].prog = prog
    /\ events[i].argv[1] = sub

GitDiffRuns == {i \in DOMAIN events : IsExec(i, "git", "diff")}
GitCommitRuns == {i \in DOMAIN events : IsExec(i, "git", "commit")}
ProviderRuns ==
    {i \in DOMAIN events :
        events[i].op = "exec" /\ events[i].prog \in Providers}
Lookups == {i \in DOMAIN events : events[i].op = "lookpath"}
StdinReads == {i \in DOMAIN events : events[i].op = "read"}

Succeeded(runs) == {i \in runs : events[i].err = ""}

LastPrinted == stdout[Len(stdout)]

Yes == { <<>>, << "y" >>, << "y", "e", "s" >> }

(***************************************************************************)
(* C1.  commit --dry-run: once the diff and the provider succeeded the     *)
(* flow ends at once, having printed the generated message and returning   *)
(* success; standard input is never read and `git commit` never spawned.   *)
(***************************************************************************)
C1_DryRunNeverCommits ==
    (cmd = "commit" /\ dryRun) =>
        /\ GitCommitRuns = {}
        /\ StdinReads = {}
        /\ pc \notin {"commit_confirm", "commit_run"}
        /\ (Succeeded(GitDiffRuns) # {} /\ Succeeded(ProviderRuns) # {})
              => /\ pc \in {"ai_returned", "done"}
                 /\ pc = "done" =>
                       /\ result = "nil"
                       /\ stdout # <<>>
                       /\ LastPrinted =
                             Printed("\nSuggested commit message:\n%s\n",
                                     << message >>)

C1_Witness ==
    /\ cmd = "commit"
    /\ dryRun
    /\ pc = "done"
    /\ result = "nil"
    /\ Succeeded(ProviderRuns) # {}
    /\ message = << "f" >>
    /\ LastPrinted.args = << << "f" >> >>

(***************************************************************************)
(* C2.  Interactive commit: `git commit` is spawned exactly when the line  *)
(* read from standard input, trimmed and lower-cased, is "", "y" or "yes"; *)
(* any other line ends the flow with "Commit cancelled.", no commit and a  *)
(* nil error.                                                              *)
(***************************************************************************)
C2_CommitIffAccepted ==
    cmd = "commit" =>
        /\ GitCommitRuns # {} => StdinReads # {}
        /\ \A i \in StdinReads :
              IF TrimSpace(ToLower(events[i].text)) \in Yes
              THEN /\ pc \in {"commit_run", "done"}
                   /\ pc = "commit_run" => GitCommitRuns = {}
                   /\ pc = "done" => Cardinality(GitCommitRuns) = 1
              ELSE /\ pc = "done"
                   /\ result = "nil"
                   /\ GitCommitRuns = {}
                   /\ LastPrinted = Printed("Commit cancelled.\n", <<>>)

C2_Witness ==
    /\ cmd = "commit"
    /\ pc = "done"
    /\ \E i \in StdinReads : events[i].text = << " ", "Y", "\n" >>
    /\ GitCommitRuns # {}

(***************************************************************************)
(* C3.  commit: when `git diff --cached` succeeds with empty output the    *)
(* command fails with "no staged changes" and does nothing else: no path   *)
(* lookup, no provider, no read of standard input, no `git commit`.        *)
(***************************************************************************)
C3_EmptyDiffStops ==
    (cmd = "commit" /\ Succeeded(GitDiffRuns) # {} /\ diffOutput = <<>>) =>
        /\ pc = "done"
        /\ result = "no staged changes"
        /\ Len(events) = 1
        /\ Lookups = {} /\ ProviderRuns = {} /\ StdinReads = {}
        /\ GitCommitRuns = {}

C3_Witness ==
    /\ cmd = "commit"
    /\ Succeeded(GitDiffRuns) # {}
    /\ diffOutput = <<>>
    /\ result = "no staged changes"

(***************************************************************************)
(* C4.  The diff interpolated into the prompt: a staged diff longer than   *)
(* 10,000 bytes becomes its first 10,000 bytes followed by the marker      *)
(* "\n... (truncated)"; a diff of at most 10,000 bytes is unchanged.       *)
(***************************************************************************)
C4_Truncation ==
    (cmd = "commit" /\ pc = "askAI") =>
        /\ Len(diffOutput) > 10000 =>
              /\ Len(diff) = 10000 + Len(TruncMarker)
              /\ \A i \in 1..10000 : diff[i] = diffOutput[i]
              /\ \A j \in 1..Len(TruncMarker) :
                    diff[10000 + j] = TruncMarker[j]
        /\ Len(diffOutput) <= 10000 => diff = diffOutput
        /\ Len(prompt) = Len(PromptHead) + Len(diff) + Len(PromptTail)
        /\ SubSeq(prompt, Len(PromptHead) + 1, Len(PromptHead) + Len(diff))
              = diff

C4_Witness ==
    /\ pc = "askAI"
    /\ Len(diffOutput) = 10001
    /\ Len(diff) = 10016
    /\ diff[10000] = diffOutput[10000]
    /\ diff[10001] = "\n"

(***************************************************************************)
(* C5.  askAI spawns at most one provider: claude when claude is on the    *)
(* path (also when codex is, and also when claude then fails), otherwise   *)
(* codex when codex is on the path, otherwise nothing, failing with the    *)
(* error that names both tools.                                            *)
(***************************************************************************)
Dispatched == Lookups # {} /\ pc \notin {"askClaude", "askCodex"}

C5_FirstMatchWins ==
    /\ Cardinality(ProviderRuns) <= 1
    /\ Dispatched =>
          /\ "claude" \in path =>
                /\ Cardinality(ProviderRuns) = 1
                /\ \A i \in ProviderRuns : events[i].prog = "claude"
                /\ \A i \in Lookups : events[i].prog = "claude"
          /\ ("claude" \notin path /\ "codex" \in path) =>
                /\ Cardinality(ProviderRuns) = 1
                /\ \A i \in ProviderRuns : events[i].prog = "codex"
          /\ path = {} =>
                /\ ProviderRuns = {}
                /\ aiErr = NoProviderMsg
                /\ pc = "done" =>
                      result \in {NoProviderMsg,
                                  Wrap("AI request failed", NoProviderMsg)}

C5_Witness ==
    /\ path = {"claude", "codex"}
    /\ pc = "done"
    /\ \E i \in ProviderRuns :
          events[i].prog = "claude" /\ events[i].err = "exit status 1"
    /\ Cardinality(ProviderRuns) = 1

(***************************************************************************)
(* C6, as the specification states it: a failed `git diff --cached` makes  *)
(* the command fail with the "no staged changes" condition.                *)
(***************************************************************************)
C6_Original ==
    (cmd = "commit" /\ GitDiffRuns # {} /\ Succeeded(GitDiffRuns) = {}) =>
        result = "no staged changes"

(***************************************************************************)
(* C6, amended.  A failed `git diff --cached` makes the command fail with  *)
(* "git diff failed: <cause>", an error other than the "no staged         *)
(* changes" of an empty diff; in both cases nothing else is done.          *)
(***************************************************************************)
C6_DiffFailureIsItsOwnError ==
    cmd = "commit" =>
        \A i \in GitDiffRuns :
            /\ events[i].err # "" =>
                  /\ pc = "done"
                  /\ result = "git diff failed: " \o events[i].err
                  /\ result # "no staged changes"
                  /\ Len(events) = 1
            /\ result = "no staged changes" =>
                  events[i].err = "" /\ diffOutput = <<>>

C6_Witness ==
    /\ cmd = "commit"
    /\ \E i \in GitDiffRuns : events[i].err = "exit status 1"
    /\ result = "git diff failed: exit status 1"

(***************************************************************************)
(* C7.  ask: a question that is empty or all whitespace, from arguments or *)
(* from standard input, fails with "no question provided" before any path  *)
(* lookup or provider; and no provider, in either command, is ever handed  *)
(* an empty prompt.                                                        *)
(***************************************************************************)
QuestionDerived ==
    /\ cmd = "ask"
    /\ pc \notin {"idle", "ask_question"}
    /\ result # "invalid output options"

\* s is a run of white-space runes (possibly none).
RECURSIVE Blank(_)
Blank(s) ==
    \/ s = <<>>
    \/ \E w \in Space :
          HasPrefix(s, w) /\ Blank(SubSeq(s, Len(w) + 1, Len(s)))

C7_NoBlankPrompt ==
    /\ (QuestionDerived /\ Blank(question)) =>
          /\ pc = "done"
          /\ result = "no question provided"
          /\ Lookups = {}
          /\ ProviderRuns = {}
    /\ pc \in {"askAI", "askClaude", "askCodex"} => Len(prompt) > 0
    /\ \A i \in ProviderRuns : Len(events[i].text) > 0

C7_Witness ==
    /\ cmd = "ask"
    /\ args = << << " " >>, <<>> >>
    /\ question = << " ", " " >>
    /\ result = "no question provided"

(***************************************************************************)
(* C8.  ask: with arguments the question is the arguments joined by single *)
(* spaces and standard input is not read; without, it is the lines of      *)
(* standard input joined by newlines.  The question goes untrimmed to the  *)
(* provider and into the "question" field of the JSON rendering.           *)
(***************************************************************************)
RECURSIVE Offset(_, _)
\* Where argument i starts in the joined question, less one.
Offset(a, i) == IF i = 1 THEN 0 ELSE Offset(a, i - 1) + Len(a[i - 1]) + 1

\* The input with its line ends written as "\n": a carriage return right
\* before a newline, or at the very end, belongs to the line end.
EndsLine(raw, i) ==
    raw[i] = "\r" /\ (i = Len(raw) \/ raw[i + 1] = "\n")

UnixText(raw) ==
    LET RECURSIVE Pick(_)
        Pick(i) == IF i > Len(raw) THEN <<>>
                   ELSE (IF EndsLine(raw, i) THEN <<>> ELSE << raw[i] >>)
                        \o Pick(i + 1)
    IN IF \A i \in DOMAIN raw : ~EndsLine(raw, i) THEN raw ELSE Pick(1)

C8_QuestionDerivation ==
    QuestionDerived =>
        /\ Len(args) > 0 =>
              /\ StdinReads = {}
              /\ Len(question) = Offset(args, Len(args)) + Len(args[Len(args)])
              /\ \A i \in DOMAIN args :
                    /\ SubSeq(question, Offset(args, i) + 1,
                              Offset(args, i) + Len(args[i])) = args[i]
                    /\ i > 1 => question[Offset(args, i)] = " "
        /\ Len(args) = 0 =>
              /\ Cardinality(StdinReads) = 1
              /\ \A i \in StdinReads :
                    LET raw == events[i].text IN
                    UnixText(raw) =
                        IF raw # <<>> /\ raw[Len(raw)] = "\n"
                        THEN question \o << "\n" >>
                        ELSE question
        /\ pc = "askAI" => prompt = question
        /\ \A i \in ProviderRuns : events[i].text = question
        /\ \A k \in DOMAIN stdout :
              stdout[k].fmt = "{question, response}" =>
                  stdout[k].args = << question, aiOut >>

\* A short input on which the derivation is as stated (reached under Spec).
C8_Witness ==
    /\ cmd = "ask"
    /\ args = <<>>
    /\ \E i \in StdinReads : events[i].text = << "q", "\n", "\f" >>
    /\ \E i \in ProviderRuns : events[i].text = << "q", "\n", "\f" >>
    /\ stdout # <<>>
    /\ LastPrinted.fmt = "{question, response}"
    /\ LastPrinted.args[1] = << "q", "\n", "\f" >>

(***************************************************************************)
(* C9.  commit: the steps happen only in the order git diff, provider,     *)
(* read of the confirmation, git commit, each at most once and each only   *)
(* after the one before it succeeded; a step that fails is the last thing  *)
(* the invocation does, and the command then returns an error.             *)
(***************************************************************************)
Failed(i) ==
    \/ events[i].op = "exec" /\ events[i].err # ""
    \/ i \in Succeeded(GitDiffRuns) /\ diffOutput = <<>>
    \/ /\ events[i].op = "lookpath"
       /\ events[i].prog = "codex"
       /\ events[i].err # ""

C9_FailuresAreTerminal ==
    cmd = "commit" =>
        /\ Cardinality(GitDiffRuns) <= 1
        /\ Cardinality(ProviderRuns) <= 1
        /\ Cardinality(StdinReads) <= 1
        /\ Cardinality(GitCommitRuns) <= 1
        /\ events # <<>> => 1 \in GitDiffRuns
        /\ \A i \in Lookups \cup ProviderRuns :
              \E j \in Succeeded(GitDiffRuns) : j < i
        /\ \A i \in StdinReads : \E j \in Succeeded(ProviderRuns) : j < i
        /\ \A i \in GitCommitRuns : \E j \in StdinReads : j < i
        /\ \A i \in DOMAIN events :
              Failed(i) =>
                  /\ i = Len(events)
                  /\ pc \in {"ai_returned", "done"}
                  /\ pc = "done" => result \notin {"none", "nil"}

C9_Witness ==
    /\ cmd = "commit"
    /\ pc = "done"
    /\ Len(events) = 5
    /\ events[5].prog = "git"
    /\ events[5].err = "exit status 1"
    /\ result = "git commit failed: exit status 1"

(***************************************************************************)
(* C10.  Interactive commit: the error of the read is ignored.  When       *)
(* standard input ends before any byte is read, the response is the empty  *)
(* string, so the flow is confirmed and `git commit -m <message>` is       *)
(* spawned; it is neither cancelled nor failed for the read.               *)
(***************************************************************************)
C10_EndOfInputConfirms ==
    cmd = "commit" =>
        \A i \in StdinReads :
            (events[i].text = <<>> /\ events[i].err # "") =>
                /\ response = <<>>
                /\ pc \in {"commit_run", "done"}
                /\ \A k \in DOMAIN stdout :
                      stdout[k].fmt # "Commit cancelled.\n"
                /\ pc = "done" =>
                      /\ i + 1 \in GitCommitRuns
                      /\ events[i + 1].text = message
                      /\ result = IF events[i + 1].err = "" THEN "nil"
                                  ELSE "git commit failed: "
                                       \o events[i + 1].err

C10_Witness ==
    /\ cmd = "commit"
    /\ pc = "done"
    /\ \E i \in StdinReads : events[i].text = <<>> /\ events[i].err = "EOF"
    /\ \E i \in GitCommitRuns :
          events[i].text = message /\ events[i].err = ""
    /\ message # <<>>
    /\ result = "nil"

=============================================================================
